---- MODULE Spec2Model ----
(***************************************************************************)
(* A model of src/main.py: the page pipeline scrape_page_combined (fetch,  *)
(* discover, download, rewrite, persist), the crawler scrape_with_crawling *)
(* that drives it, and categorize_asset on its own.                        *)
(*                                                                         *)
(* URLs are records of the five components urlparse splits a string into;  *)
(* a path is the sequence of its '/'-separated segments (a leading empty   *)
(* segment is the leading '/'), and a segment keeps its stem and its       *)
(* extension (a sequence of characters) apart, as os.path.splitext does.   *)
(***************************************************************************)
EXTENDS Integers, Sequences, FiniteSets, TLC

\* ------------------------------------------------------------------ bounds
\* at most this many elements in a fetched document
MaxEls == 2

\* ------------------------------------------------------- URLs and segments
Seg(s, e) == [stem |-> s, ext |-> e]
Dir(s) == Seg(s, <<>>)
Empty == Dir("")
DotDot == Dir("..")
Dot == Dir(".")

U(s, n, p, q, f) == [scheme |-> s, netloc |-> n, path |-> p, query |-> q, fragment |-> f]

NoUrl == U("", "", <<>>, "", "")

\* urlparse raises ValueError ("Invalid IPv6 URL") on an unmatched bracket
Malformed(u) == u.netloc = "[x"

\* schemes urljoin resolves relative references for (urllib's uses_relative)
UsesRelative == {"http", "https", "ftp", ""}

RECURSIVE RemoveDots(_, _)
RemoveDots(segs, acc) ==
    IF segs = <<>> THEN acc
    ELSE LET s == Head(segs) IN
         IF s = DotDot
         THEN RemoveDots(Tail(segs), IF acc = <<>> THEN acc ELSE SubSeq(acc, 1, Len(acc) - 1))
         ELSE IF s = Dot THEN RemoveDots(Tail(segs), acc)
         ELSE RemoveDots(Tail(segs), Append(acc, s))

\* the segments between the first and the last, empty ones dropped
FilterMiddle(segs) ==
    IF Len(segs) <= 2 THEN segs
    ELSE <<Head(segs)>>
         \o SelectSeq(SubSeq(segs, 2, Len(segs) - 1), LAMBDA s : s # Empty)
         \o <<segs[Len(segs)]>>

Rooted(p) == IF p # <<>> /\ Head(p) = Empty THEN p ELSE <<Empty>> \o p

\* urllib.parse.urljoin(base, url) for a well-formed url
UrlJoin(base, url) ==
    LET scheme == IF url.scheme = "" THEN base.scheme ELSE url.scheme IN
    IF url = NoUrl THEN base
    ELSE IF scheme # base.scheme \/ scheme \notin UsesRelative THEN url
    ELSE IF url.netloc # "" THEN [url EXCEPT !.scheme = scheme]
    ELSE IF url.path = <<>>
         THEN U(scheme, base.netloc, base.path,
                IF url.query = "" THEN base.query ELSE url.query, url.fragment)
    ELSE LET bparts == IF base.path # <<>> /\ base.path[Len(base.path)] # Empty
                       THEN SubSeq(base.path, 1, Len(base.path) - 1)
                       ELSE base.path
             segments == IF Head(url.path) = Empty THEN url.path
                         ELSE FilterMiddle(bparts \o url.path)
             resolved == RemoveDots(segments, <<>>)
             closed == IF segments[Len(segments)] \in {Dot, DotDot}
                       THEN Append(resolved, Empty) ELSE resolved
         IN U(scheme, base.netloc, Rooted(closed), url.query, url.fragment)

\* urllib.parse.urldefrag(url)[0]
UrlDefrag(u) == [u EXCEPT !.fragment = ""]

\* str.lower() on one character: the ASCII letters, every other character kept
Uppers == <<"A","B","C","D","E","F","G","H","I","J","K","L","M",
            "N","O","P","Q","R","S","T","U","V","W","X","Y","Z">>
Lowers == <<"a","b","c","d","e","f","g","h","i","j","k","l","m",
            "n","o","p","q","r","s","t","u","v","w","x","y","z">>
LowerChar(c) ==
    IF \E i \in DOMAIN Uppers : Uppers[i] = c
    THEN Lowers[CHOOSE i \in DOMAIN Uppers : Uppers[i] = c]
    ELSE c

Lower(e) == [i \in 1..Len(e) |-> LowerChar(e[i])]

ImageExts == {<<"p","n","g">>, <<"j","p","g">>, <<"j","p","e","g">>, <<"g","i","f">>,
              <<"s","v","g">>, <<"w","e","b","p">>, <<"i","c","o">>}

\* a path that forgets to fold the letter case of the extension
categorize_asset_case_sensitive(path) ==
    LET ext == IF path = <<>> THEN <<>> ELSE path[Len(path)].ext IN
    IF ext = <<"c","s","s">> THEN "css"
    ELSE IF ext = <<"j","s">> THEN "js"
    ELSE IF ext \in ImageExts THEN "images"
    ELSE "assets"

\* categorize_asset(path): the category of the path's last segment (the
\* empty path has no segment and no extension)
categorize_asset(path) ==
    LET ext == IF path = <<>> THEN <<>> ELSE Lower(path[Len(path)].ext) IN
    IF ext = <<"c","s","s">> THEN "css"
    ELSE IF ext = <<"j","s">> THEN "js"
    ELSE IF ext \in ImageExts THEN "images"
    ELSE "assets"

\* os.path.splitext on one file name given as its characters: the extension
\* starts at the last dot, unless only dots precede that dot
SplitExt(name) ==
    LET dots == {i \in DOMAIN name : name[i] = "."}
        last == CHOOSE i \in dots : \A j \in dots : j <= i
    IN IF dots # {} /\ \E j \in 1..(last - 1) : name[j] # "."
       THEN Seg(SubSeq(name, 1, last - 1), SubSeq(name, last + 1, Len(name)))
       ELSE Seg(name, <<>>)

\* the segments of a path given as its characters; splitext looks for the
\* dot after the last '/', so only the last segment's extension is split off
RECURSIVE Segments(_, _)
Segments(str, cur) ==
    IF str = <<>> THEN <<SplitExt(cur)>>
    ELSE IF Head(str) = "/" THEN <<Seg(cur, <<>>)>> \o Segments(Tail(str), <<>>)
    ELSE Segments(Tail(str), Append(cur, Head(str)))

\* str.lstrip('/') on a path
RECURSIVE LStrip(_)
LStrip(p) == IF p # <<>> /\ Head(p) = Empty THEN LStrip(Tail(p)) ELSE p

\* posixpath.normpath on a relative path
RECURSIVE NormSegs(_, _)
NormSegs(segs, acc) ==
    IF segs = <<>> THEN acc
    ELSE LET s == Head(segs) IN
         IF s = Empty \/ s = Dot THEN NormSegs(Tail(segs), acc)
         ELSE IF s = DotDot /\ acc # <<>> /\ acc[Len(acc)] # DotDot
         THEN NormSegs(Tail(segs), SubSeq(acc, 1, Len(acc) - 1))
         ELSE NormSegs(Tail(segs), Append(acc, s))

NormPath(p) == LET n == NormSegs(p, <<>>) IN IF n = <<>> THEN <<Dot>> ELSE n

Range(q) == {q[i] : i \in DOMAIN q}

\* os.path.dirname and the proper prefixes of a path
DirName(p) == SubSeq(p, 1, Len(p) - 1)
Prefixes(p) == {SubSeq(p, 1, k) : k \in 1..Len(p)}

\* os.path.relpath(p, root) for p under root
RelPath(p, root) == SubSeq(p, Len(root) + 1, Len(p))

\* ----------------------------------------------------- the scraped page
page_url == U("http", "h", <<Empty, Dir("d"), Dir("p")>>, "", "")
output_dir == <<Dir("out")>>

JS == <<"j","s">>
AJs == Seg("a", JS)
Rel(p, q) == U("", "", p, q, "")
Abs(n, p) == U("http", n, p, "", "")

\* the elements a fetched document is made of: tag, rel and the value of
\* the tag's reference attribute (src for img and script, href for link, a)
El(t, r, v) == [tag |-> t, rel |-> r, val |-> v]
ElemUniverse ==
    [e1 |-> El("script", "", Rel(<<AJs>>, "")),
     e2 |-> El("script", "", Rel(<<AJs>>, "v=2")),
     e3 |-> El("script", "", Abs("cdn", <<Empty, Dir("d"), AJs>>)),
     e4 |-> El("link", "stylesheet", Rel(<<DotDot, Seg("c", <<"C","S","S">>)>>, "")),
     e5 |-> El("img", "", U("data", "", <<Dir("image/png;base64,AAAA")>>, "", "")),
     e6 |-> El("a", "", Rel(<<AJs>>, "")),
     e7 |-> El("img", "", U("http", "[x", <<>>, "", "")),
     e8 |-> El("img", "", NoUrl),
     e9 |-> El("link", "icon", U("", "cdn", <<Empty, Dir("d"), AJs>>, "", ""))]
ElemIds == DOMAIN ElemUniverse

Docs == {d \in SUBSET ElemIds : Cardinality(d) <= MaxEls}

\* url(...) references a fetched stylesheet body may hold
CssRefs == {U("http", "[x", <<>>, "", "")}
\* the requests the browser's performance log may hold
LogUrls == {Abs("h", <<Empty, Dir("d"), AJs>>), Abs("cdn", <<Empty, Dir("d"), AJs>>),
            Abs("h", <<Empty, Dir("api")>>)}

VARIABLES
    pc,            \* position in scrape_page_combined
    trace,         \* the stages entered in this run, in order
    error,         \* the exception that left scrape_page_combined, or "none"
    html,          \* the fetched document: a set of element ids
    soup,          \* the parsed tree: element id -> element, rewritten in place
    static_urls, dynamic_urls, all_urls,
    todo,          \* the members of all_urls the download loop has yet to take
    tried,         \* the members of all_urls the loop has taken
    attempts,      \* real_url -> number of session.get calls download_asset made
    answers,       \* reference -> TRUE iff the server answered its request with success
    succeeded,     \* the real_urls answered with success and written to their path
    url_to_local,  \* real_url -> local_path
    files,         \* the output tree: local path -> content (the URL it came from)
    dirs,          \* the directories of the output tree
    index,         \* the persisted index.html: whether it exists and the tree it holds
    drivers,       \* number of browser sessions started and not quit
    run,           \* "first" or "second" run on this page and directory
    first          \* the output tree and index.html the first run left

pageVars == <<pc, trace, error, html, soup, static_urls, dynamic_urls, all_urls, todo,
          tried, attempts, answers, succeeded, url_to_local, files, dirs, index, drivers, run, first>>

VARIABLES
    cpc,           \* position in scrape_with_crawling
    max_pages, start_url,
    visited, to_visit, count,
    clean_url,     \* the page whose links are being read
    scrapes,       \* the scrape_page_combined calls made: page, directory, outcome
    site           \* the pages whose links were requested: their anchors, the outcome

crawlVars == <<cpc, max_pages, start_url, visited, to_visit, count, clean_url, scrapes, site>>

VARIABLES
    asset_path,    \* the argument of a categorize_asset call: a string's characters
    asset_cat      \* what the call returned, "none" before it returns

catVars == <<asset_path, asset_cat>>

vars == <<pageVars, crawlVars, catVars>>

NoIndex == [exists |-> FALSE, doc |-> [x \in {} |-> x]]
Emp == [x \in {} |-> x]

Init ==
    /\ cpc = "off" /\ max_pages = 0 /\ start_url = NoUrl
    /\ visited = {} /\ to_visit = <<>> /\ count = 0
    /\ clean_url = NoUrl /\ scrapes = <<>> /\ site = Emp
    /\ pc = "fetch" /\ trace = <<"FETCH">> /\ error = "none"
    /\ html = {} /\ soup = Emp
    /\ static_urls = {} /\ dynamic_urls = {} /\ all_urls = {}
    /\ todo = {} /\ tried = {} /\ attempts = Emp /\ answers = Emp /\ succeeded = {}
    /\ url_to_local = Emp
    /\ files = Emp /\ dirs = {} /\ index = NoIndex /\ drivers = 0
    /\ run = "first" /\ first = [files |-> Emp, index |-> NoIndex]
    /\ asset_path = <<>> /\ asset_cat = "none"

\* the stage a position belongs to
Stage(p) ==
    CASE p \in {"fetch", "fallback"} -> "FETCH"
      [] p \in {"static", "dynamic"} -> "DISCOVER"
      [] p = "download" -> "DOWNLOAD"
      [] p = "rewrite" -> "REWRITE"
      [] p = "persist" -> "PERSIST"
      [] OTHER -> "END"

Goto(p) ==
    /\ pc' = p
    /\ trace' = IF Stage(p) \in {"END", trace[Len(trace)]} THEN trace
                ELSE Append(trace, Stage(p))
Raise(e) == Goto("aborted") /\ error' = e

\* BeautifulSoup(html, "html.parser")
Parse(d) == [id \in d |-> ElemUniverse[id]]

\* a second run sees the same upstream: the same answer to the same request
Same(old, new) == run = "second" => new = old

\* ------------------------------------------------------------- 1) fetch
\* session.get(page_url) answers with a success status: html = resp.content
FetchDirect ==
    /\ pc = "fetch"
    /\ \E d \in Docs :
         /\ Same(html, d)
         /\ html' = d /\ soup' = Parse(d)
    /\ Goto("static")
    /\ UNCHANGED <<error, static_urls, dynamic_urls, all_urls, todo, tried, attempts,
                   answers, succeeded, url_to_local, files, dirs, index, drivers, run, first>>
    /\ UNCHANGED <<crawlVars, catVars>>

\* no except clause: the HTTPError leaves scrape_page_combined
FetchHTTPError_no_fallback ==
    /\ pc = "fetch" /\ run = "first"
    /\ Raise("HTTPError")
    /\ UNCHANGED <<html, soup, static_urls, dynamic_urls, all_urls, todo, tried,
                   attempts, answers, succeeded, url_to_local, files, dirs, index, drivers,
                   run, first>>
    /\ UNCHANGED <<crawlVars, catVars>>

\* raise_for_status raises HTTPError: the except clause takes the browser path
FetchHTTPError ==
    /\ pc = "fetch"
    /\ Goto("fallback")
    /\ UNCHANGED <<error, html, soup, static_urls, dynamic_urls, all_urls, todo, tried,
                   attempts, answers, succeeded, url_to_local, files, dirs, index, drivers, run, first>>
    /\ UNCHANGED <<crawlVars, catVars>>

\* session.get raises anything that is not an HTTPError (ConnectionError,
\* Timeout, RetryError): no except clause matches, the exception leaves
FetchTransportError ==
    /\ pc = "fetch"
    /\ run = "first"
    /\ Raise("ConnectionError")
    /\ UNCHANGED <<html, soup, static_urls, dynamic_urls, all_urls, todo, tried,
                   attempts, answers, succeeded, url_to_local, files, dirs, index, drivers, run, first>>
    /\ UNCHANGED <<crawlVars, catVars>>

\* the except clause: webdriver.Chrome, driver.get, sleep, page_source, quit
FallbackOutcomes == {"start_failed", "get_failed", "source_failed", "ok"}
FetchFallback ==
    /\ pc = "fallback"
    /\ \E o \in FallbackOutcomes :
         \/ /\ o = "start_failed" /\ run = "first"
            /\ Raise("fallback: WebDriverException at webdriver.Chrome")
            /\ UNCHANGED <<drivers, html, soup>>
         \/ /\ o = "get_failed" /\ run = "first"
            /\ drivers' = drivers + 1
            /\ Raise("fallback: WebDriverException at driver.get")
            /\ UNCHANGED <<html, soup>>
         \/ /\ o = "source_failed" /\ run = "first"
            /\ drivers' = drivers + 1
            /\ Raise("fallback: WebDriverException at driver.page_source")
            /\ UNCHANGED <<html, soup>>
         \/ /\ o = "ok"
            /\ \E d \in Docs : Same(html, d) /\ html' = d /\ soup' = Parse(d)
            /\ drivers' = drivers + 1 - 1
            /\ Goto("static")
            /\ UNCHANGED error
    /\ UNCHANGED <<static_urls, dynamic_urls, all_urls, todo, tried, attempts, answers, succeeded,
                   url_to_local, files, dirs, index, run, first>>
    /\ UNCHANGED <<crawlVars, catVars>>

\* ------------------------------------------------ 2) collect static URLs
\* v.startswith(("data:", "javascript:"))
IsPseudo(v) == v.scheme \in {"data", "javascript"}

\* the first loop: link href, script src, img src
TagRefs(sp) ==
    {sp[id].val : id \in {i \in DOMAIN sp :
                            /\ sp[i].tag \in {"link", "script", "img"}
                            /\ sp[i].val # NoUrl
                            /\ ~IsPseudo(sp[i].val)}}

\* soup.find_all("link", rel="stylesheet") with a usable href
Sheets(sp) ==
    {id \in DOMAIN sp : /\ sp[id].tag = "link" /\ sp[id].rel = "stylesheet"
                        /\ sp[id].val # NoUrl /\ sp[id].val.scheme # "data"}

\* what one stylesheet adds: nothing when its fetch raises, else its url(...)
\* matches that are not empty and not data: URLs
CssAnswers == {[ok |-> FALSE, refs |-> {}]} \cup {[ok |-> TRUE, refs |-> s] : s \in SUBSET CssRefs}
CssFound(answer) ==
    IF answer.ok THEN {m \in answer.refs : m # NoUrl /\ m.scheme # "data"} ELSE {}

CollectStatic ==
    /\ pc = "static"
    /\ IF \E id \in Sheets(soup) : Malformed(soup[id].val)
       THEN \* urljoin(page_url, href) stands outside the try
            /\ Raise("ValueError at urljoin (stylesheet)")
            /\ UNCHANGED static_urls
       ELSE /\ \E css \in [Sheets(soup) -> CssAnswers] :
                 LET found == TagRefs(soup) \cup UNION {CssFound(css[id]) : id \in Sheets(soup)}
                 IN Same(static_urls, found) /\ static_urls' = found
            /\ Goto("dynamic")
            /\ UNCHANGED error
    /\ UNCHANGED <<html, soup, dynamic_urls, all_urls, todo, tried, attempts, answers, succeeded,
                   url_to_local, files, dirs, index, drivers, run, first>>
    /\ UNCHANGED <<crawlVars, catVars>>

\* ----------------------------------------------- 3) collect dynamic URLs
DynExts == {<<"c","s","s">>, JS, <<"p","n","g">>, <<"j","p","g">>, <<"j","p","e","g">>,
            <<"w","o","f","f">>, <<"w","o","f","f","2">>, <<"s","v","g">>, <<"j","s","o","n">>}

\* any(u.lower().endswith(ext) ...): the URL string ends with its path's
\* last segment only when no query and no fragment follow it
EndsWithAssetExt(u) ==
    /\ u.query = "" /\ u.fragment = "" /\ u.path # <<>>
    /\ Lower(u.path[Len(u.path)].ext) \in DynExts

\* the set get_dynamic_urls returns for a captured log
DynamicFilter(log) == {u \in log : EndsWithAssetExt(u)}

\* get_dynamic_urls(page_url, wait, user_agent) and the union that follows it
DynamicOutcomes == {"start_failed", "get_failed", "log_failed", "ok"}
CollectDynamic ==
    /\ pc = "dynamic"
    /\ \E o \in DynamicOutcomes :
         \/ /\ o = "start_failed" /\ run = "first"
            /\ Raise("WebDriverException at webdriver.Chrome")
            /\ UNCHANGED <<drivers, dynamic_urls, all_urls, todo>>
         \/ /\ o = "get_failed" /\ run = "first"
            /\ drivers' = drivers + 1
            /\ Raise("WebDriverException at driver.get")
            /\ UNCHANGED <<dynamic_urls, all_urls, todo>>
         \/ /\ o = "log_failed" /\ run = "first"
            /\ drivers' = drivers + 1
            /\ Raise("WebDriverException at driver.get_log")
            /\ UNCHANGED <<dynamic_urls, all_urls, todo>>
         \/ /\ o = "ok"
            /\ drivers' = drivers + 1 - 1
            /\ \E log \in SUBSET LogUrls :
                 /\ Same(dynamic_urls, DynamicFilter(log))
                 /\ dynamic_urls' = DynamicFilter(log)
            /\ all_urls' = static_urls \cup dynamic_urls'
            /\ todo' = all_urls'
            /\ Goto("download")
            /\ UNCHANGED error
    /\ UNCHANGED <<html, soup, static_urls, tried, attempts, answers, succeeded, url_to_local,
                   files, dirs, index, run, first>>
    /\ UNCHANGED <<crawlVars, catVars>>

\* ------------------------------------------------ 4) download everything
\* make_local_path(base_dir, asset_url, base_url) on the output tree fs_files,
\* fs_dirs: the pair it returns and the directories os.makedirs left, or raised
make_local_path(base_dir, asset_url, base_url, fs_files, fs_dirs) ==
    IF Malformed(asset_url)
    THEN [raised |-> TRUE, dirs |-> fs_dirs]
    ELSE LET real == IF asset_url.netloc = "" THEN UrlJoin(base_url, asset_url) ELSE asset_url
             rel_path == NormPath(LStrip(real.path))
             category == categorize_asset(rel_path)
             local_path == base_dir \o <<Dir(category)>> \o rel_path
             parents == Prefixes(DirName(local_path))
         IN IF \E d \in parents : d \in DOMAIN fs_files
            THEN \* os.makedirs meets a regular file where a directory is needed
                 [raised |-> TRUE,
                  dirs |-> fs_dirs \cup {d \in parents :
                               \A k \in 1..Len(d) : SubSeq(d, 1, k) \notin DOMAIN fs_files}]
            ELSE [raised |-> FALSE, local_path |-> local_path, real_url |-> real,
                  dirs |-> fs_dirs \cup parents]

\* what session.get(url) / raise_for_status can do
NetAnswers == {"ok", "http_error", "transport_error"}

\* open(local_path, 'wb') raises on a directory
IsDirectory(p, fs_dirs) == p \in fs_dirs \/ p[Len(p)] \in {Dot, DotDot}

\* download_asset without resp.raise_for_status(): an error body is saved as well
download_asset_no_status_check(url, local_path, net, fs_files, fs_dirs) ==
    IF url.scheme \notin {"http", "https"} \/ net = "transport_error"
       \/ IsDirectory(local_path, fs_dirs)
    THEN [ok |-> FALSE, wrote |-> FALSE, files |-> fs_files]
    ELSE [ok |-> TRUE, wrote |-> TRUE,
          files |-> [q \in DOMAIN fs_files \cup {local_path} |->
                        IF q = local_path THEN url ELSE fs_files[q]]]

\* download_asset(session, url, local_path, delay): its return value and the
\* output tree it leaves; net is the server's answer to this request. The
\* delay is not negative, so time.sleep(delay) returns after the write.
download_asset(url, local_path, net, fs_files, fs_dirs) ==
    IF url.scheme \notin {"http", "https"}
    THEN [ok |-> FALSE, wrote |-> FALSE, files |-> fs_files]   \* requests: MissingSchema
    ELSE IF net # "ok"
    THEN [ok |-> FALSE, wrote |-> FALSE, files |-> fs_files]
    ELSE IF IsDirectory(local_path, fs_dirs)
    THEN [ok |-> FALSE, wrote |-> FALSE, files |-> fs_files]
    ELSE [ok |-> TRUE, wrote |-> TRUE,
          files |-> [q \in DOMAIN fs_files \cup {local_path} |->
                        IF q = local_path THEN url ELSE fs_files[q]]]

Bump(f, k) == [x \in DOMAIN f \cup {k} |-> IF x = k THEN (IF k \in DOMAIN f THEN f[k] + 1 ELSE 1) ELSE f[x]]
Put(f, k, v) == [x \in DOMAIN f \cup {k} |-> IF x = k THEN v ELSE f[x]]

\* one iteration of "for u in all_urls": the set is iterated in no fixed order
DownloadOne(u) ==
    /\ pc = "download" /\ u \in todo
    /\ LET m == make_local_path(output_dir, u, page_url, files, dirs) IN
       IF m.raised
       THEN /\ dirs' = m.dirs
            /\ UNCHANGED <<attempts, answers, succeeded, url_to_local, files>>
       ELSE \E net \in NetAnswers :
              LET r == download_asset(m.real_url, m.local_path, net, files, m.dirs) IN
              /\ run = "second" => (u \in DOMAIN answers /\ answers[u] = (net = "ok"))
              /\ dirs' = m.dirs
              /\ files' = r.files
              /\ attempts' = Bump(attempts, m.real_url)
              /\ succeeded' = IF net = "ok" /\ r.wrote THEN succeeded \cup {m.real_url} ELSE succeeded
              /\ answers' = Put(answers, u, net = "ok")
              /\ url_to_local' = IF r.ok THEN Put(url_to_local, m.real_url, m.local_path)
                                 ELSE url_to_local
    /\ todo' = todo \ {u}
    /\ tried' = tried \cup {u}
    /\ UNCHANGED <<pc, trace, error, html, soup, static_urls, dynamic_urls, all_urls,
                   index, drivers, run, first>>
    /\ UNCHANGED <<crawlVars, catVars>>

\* the loop has taken every member of all_urls
DownloadEnd ==
    /\ pc = "download" /\ todo = {}
    /\ Goto("rewrite")
    /\ UNCHANGED <<error, html, soup, static_urls, dynamic_urls, all_urls, todo, tried,
                   attempts, answers, succeeded, url_to_local, files, dirs, index, drivers,
                   run, first>>
    /\ UNCHANGED <<crawlVars, catVars>>

\* ---------------------------------------------- 5) update URLs in soup
RewriteTags == {"img", "script", "link", "a"}

\* a rewrite that does not consult the outcome: every reference is localised
RewriteValue_unconditional(v, outcome) ==
    LET full == UrlJoin(page_url, v) IN
    IF v = NoUrl THEN v
    ELSE Rel(<<Dir(categorize_asset(NormPath(LStrip(full.path))))>> \o NormPath(LStrip(full.path)), "")

\* the value the loop leaves in one element's attribute
RewriteValue(v, outcome) ==
    LET full == UrlJoin(page_url, v) IN
    IF v = NoUrl THEN v
    ELSE IF full \in DOMAIN outcome
    THEN Rel(RelPath(outcome[full], output_dir), "")
    ELSE v

Rewrite ==
    /\ pc = "rewrite"
    /\ IF \E id \in DOMAIN soup : soup[id].tag \in RewriteTags /\ Malformed(soup[id].val)
       THEN \* urljoin(page_url, v) raises and nothing catches it
            /\ Raise("ValueError at urljoin (rewrite)")
            /\ UNCHANGED soup
       ELSE /\ soup' = [id \in DOMAIN soup |->
                          IF soup[id].tag \in RewriteTags
                          THEN [soup[id] EXCEPT !.val = RewriteValue(@, url_to_local)]
                          ELSE soup[id]]
            /\ Goto("persist")
            /\ UNCHANGED error
    /\ UNCHANGED <<html, static_urls, dynamic_urls, all_urls, todo, tried, attempts,
                   answers, succeeded, url_to_local, files, dirs, index, drivers, run, first>>
    /\ UNCHANGED <<crawlVars, catVars>>

\* ------------------------------------------------- 6) write index.html
Persist ==
    /\ pc = "persist"
    /\ index' = [exists |-> TRUE, doc |-> soup]
    /\ dirs' = dirs \cup {output_dir}
    /\ Goto("done")
    /\ UNCHANGED <<error, html, soup, static_urls, dynamic_urls, all_urls, todo, tried,
                   attempts, answers, succeeded, url_to_local, files, drivers, run, first>>
    /\ UNCHANGED <<crawlVars, catVars>>

\* scrape_page_combined is called again on the same page and directory
Rerun ==
    /\ pc = "done" /\ run = "first"
    /\ run' = "second"
    /\ first' = [files |-> files, index |-> index]
    /\ pc' = "fetch" /\ trace' = <<"FETCH">>
    /\ soup' = Emp /\ all_urls' = {} /\ todo' = {} /\ tried' = {}
    /\ attempts' = Emp /\ succeeded' = {} /\ url_to_local' = Emp
    /\ UNCHANGED <<error, html, static_urls, dynamic_urls, answers, files, dirs, index,
                   drivers>>
    /\ UNCHANGED <<crawlVars, catVars>>

NextPage ==
    \/ FetchDirect \/ FetchHTTPError \/ FetchTransportError \/ FetchFallback
    \/ CollectStatic \/ CollectDynamic
    \/ \E u \in todo : DownloadOne(u)
    \/ DownloadEnd \/ Rewrite \/ Persist \/ Rerun

\* ------------------------------------------------------------ the crawler
\* at most this many pages to crawl (max_pages), anchors in one page
MaxPages == 3
MaxLinks == 2

Page(n, name, f) == U("http", n, <<Empty, Dir(name)>>, "", f)
\* the start URL carries a fragment, as a pasted link may
StartUrls == {Page("h", "a", "s")}
\* the href values a page's anchors may hold, in document order
Hrefs == <<Rel(<<Dir("d")>>, ""), Rel(<<Dir("b")>>, ""), U("", "", <<Dir("b")>>, "", "s"),
           U("http", "[x", <<>>, "", ""), Rel(<<Dir("c")>>, ""), Page("h", "a", "top"),
           Page("other", "x", "")>>
\* the anchors of the site's pages, as positions in Hrefs: every page with
\* no anchor or one, and these pages with more
AnchorSets ==
    {{}} \cup {{i} : i \in DOMAIN Hrefs}
      \cup {{2, 5}, {1, 2}, {2, 3}, {3, 5}, {4, 5}, {5, 6}, {5, 7}}
      \cup {{2, 5, 7}, {1, 2, 6}, {2, 4, 5}}
LinkLists ==
    {[i \in 1..Cardinality(S) |-> Hrefs[CHOOSE k \in S : Cardinality({j \in S : j < k}) = i - 1]] :
       S \in {T \in AnchorSets : Cardinality(T) <= MaxLinks}}

Spec == Init /\ [][NextPage]_vars

\* the crawler alone: scrape_page_combined is a call that returns or raises
InitCrawl ==
    /\ cpc = "loop"
    /\ max_pages \in 0..MaxPages
    /\ start_url \in StartUrls
    /\ visited = {} /\ to_visit = <<start_url>> /\ count = 0
    /\ clean_url = NoUrl /\ scrapes = <<>> /\ site = Emp
    /\ pc = "off" /\ trace = <<>> /\ error = "none"
    /\ html = {} /\ soup = Emp
    /\ static_urls = {} /\ dynamic_urls = {} /\ all_urls = {}
    /\ todo = {} /\ tried = {} /\ attempts = Emp /\ answers = Emp /\ succeeded = {}
    /\ url_to_local = Emp
    /\ files = Emp /\ dirs = {} /\ index = NoIndex /\ drivers = 0
    /\ run = "first" /\ first = [files |-> Emp, index |-> NoIndex]
    /\ asset_path = <<>> /\ asset_cat = "none"

\* urlparse(start_url).netloc
domain == start_url.netloc

\* a loop that stops one page late
LoopCond_off_by_one == to_visit # <<>> /\ count <= max_pages

\* while to_visit and count < max_pages
LoopCond == to_visit # <<>> /\ count < max_pages

\* the dequeued URL looked up as it is, fragment and all
AlreadyVisited_raw(current, vis) == current \in vis

\* clean_url = urldefrag(current)[0]; if clean_url in visited
AlreadyVisited(current, vis) == UrlDefrag(current) \in vis

\* a loop that leaves a scraped URL at the head of the queue
CrawlSkip_keeps_head ==
    /\ cpc = "loop" /\ LoopCond
    /\ AlreadyVisited(Head(to_visit), visited)
    /\ to_visit' = to_visit
    /\ UNCHANGED <<cpc, max_pages, start_url, visited, count, clean_url, scrapes, site>>
    /\ UNCHANGED <<pageVars, catVars>>

\* the dequeued URL was scraped before: continue
CrawlSkip ==
    /\ cpc = "loop" /\ LoopCond
    /\ AlreadyVisited(Head(to_visit), visited)
    /\ to_visit' = Tail(to_visit)
    /\ UNCHANGED <<cpc, max_pages, start_url, visited, count, clean_url, scrapes, site>>
    /\ UNCHANGED <<pageVars, catVars>>

\* a crawler that numbers the directories by scrapes started
CrawlScrape_numbers_attempts ==
    /\ cpc = "loop" /\ LoopCond
    /\ ~AlreadyVisited(Head(to_visit), visited)
    /\ to_visit' = Tail(to_visit)
    /\ LET clean == UrlDefrag(Head(to_visit)) IN
       \E ok \in BOOLEAN :
         /\ scrapes' = Append(scrapes, [url |-> clean, dir |-> Len(scrapes) + 1, ok |-> ok])
         /\ IF ok
            THEN /\ visited' = visited \cup {clean}
                 /\ count' = count + 1
                 /\ clean_url' = clean
                 /\ cpc' = "links"
            ELSE UNCHANGED <<visited, count, clean_url, cpc>>
    /\ UNCHANGED <<max_pages, start_url, site>>
    /\ UNCHANGED <<pageVars, catVars>>

\* a crawler that marks the page visited before it scrapes it
CrawlScrape_marks_first ==
    /\ cpc = "loop" /\ LoopCond
    /\ ~AlreadyVisited(Head(to_visit), visited)
    /\ to_visit' = Tail(to_visit)
    /\ LET clean == UrlDefrag(Head(to_visit)) IN
       \E ok \in BOOLEAN :
         /\ scrapes' = Append(scrapes, [url |-> clean, dir |-> count + 1, ok |-> ok])
         /\ IF ok
            THEN /\ visited' = visited \cup {clean}
                 /\ count' = count + 1
                 /\ clean_url' = clean
                 /\ cpc' = "links"
            ELSE visited' = visited \cup {clean} /\ UNCHANGED <<count, clean_url, cpc>>
    /\ UNCHANGED <<max_pages, start_url, site>>
    /\ UNCHANGED <<pageVars, catVars>>

\* the dequeued URL is scraped into page_<count+1>; the call returns or raises
CrawlScrape ==
    /\ cpc = "loop" /\ LoopCond
    /\ ~AlreadyVisited(Head(to_visit), visited)
    /\ to_visit' = Tail(to_visit)
    /\ LET clean == UrlDefrag(Head(to_visit)) IN
       \E ok \in BOOLEAN :
         /\ scrapes' = Append(scrapes, [url |-> clean, dir |-> count + 1, ok |-> ok])
         /\ IF ok
            THEN /\ visited' = visited \cup {clean}
                 /\ count' = count + 1
                 /\ clean_url' = clean
                 /\ cpc' = "links"
            ELSE UNCHANGED <<visited, count, clean_url, cpc>>
    /\ UNCHANGED <<max_pages, start_url, site>>
    /\ UNCHANGED <<pageVars, catVars>>

\* a pass that appends every unvisited link, whatever its host
RECURSIVE Enqueued_any_domain(_, _, _, _)
Enqueued_any_domain(hrefs, base, dom, vis) ==
    IF hrefs = <<>> \/ Malformed(Head(hrefs)) THEN <<>>
    ELSE LET href == UrlJoin(base, Head(hrefs))
             rest == Enqueued_any_domain(Tail(hrefs), base, dom, vis)
         IN IF UrlDefrag(href) \notin vis
            THEN <<href>> \o rest
            ELSE rest

\* the URLs one pass over the anchors appends to to_visit; a malformed href
\* makes urljoin raise, which ends the pass with the earlier ones appended
RECURSIVE Enqueued(_, _, _, _)
Enqueued(hrefs, base, dom, vis) ==
    IF hrefs = <<>> \/ Malformed(Head(hrefs)) THEN <<>>
    ELSE LET href == UrlJoin(base, Head(hrefs))
             rest == Enqueued(Tail(hrefs), base, dom, vis)
         IN IF href.netloc = dom /\ UrlDefrag(href) \notin vis
            THEN <<href>> \o rest
            ELSE rest

\* a crawler that puts the links it finds at the front of the queue
CrawlLinks_prepends ==
    /\ cpc = "links"
    /\ \E ok \in BOOLEAN, hrefs \in LinkLists :
         /\ site' = Put(site, clean_url, [hrefs |-> hrefs, ok |-> ok])
         /\ to_visit' = IF ok THEN Enqueued(hrefs, clean_url, domain, visited) \o to_visit
                        ELSE to_visit
    /\ cpc' = "loop"
    /\ UNCHANGED <<max_pages, start_url, visited, count, clean_url, scrapes>>
    /\ UNCHANGED <<pageVars, catVars>>

\* the page is fetched again and its anchors are read
CrawlLinks ==
    /\ cpc = "links"
    /\ \E ok \in BOOLEAN, hrefs \in LinkLists :
         /\ site' = Put(site, clean_url, [hrefs |-> hrefs, ok |-> ok])
         /\ to_visit' = IF ok THEN to_visit \o Enqueued(hrefs, clean_url, domain, visited)
                        ELSE to_visit
    /\ cpc' = "loop"
    /\ UNCHANGED <<max_pages, start_url, visited, count, clean_url, scrapes>>
    /\ UNCHANGED <<pageVars, catVars>>

\* the loop condition fails
CrawlFinish ==
    /\ cpc = "loop" /\ ~LoopCond
    /\ cpc' = "finished"
    /\ UNCHANGED <<max_pages, start_url, visited, to_visit, count, clean_url, scrapes, site>>
    /\ UNCHANGED <<pageVars, catVars>>

NextCrawl == CrawlSkip \/ CrawlScrape \/ CrawlLinks \/ CrawlFinish

SpecCrawl == InitCrawl /\ [][NextCrawl]_vars

\* the crawler when every scrape and every fetch returns or raises: the
\* loop always takes its next step
SpecCrawlFair == SpecCrawl /\ WF_vars(NextCrawl)

\* ------------------------------------------------- categorize_asset alone
\* str.upper() on one ASCII letter
UpperChar(c) ==
    IF \E i \in DOMAIN Lowers : Lowers[i] = c
    THEN Uppers[CHOOSE i \in DOMAIN Lowers : Lowers[i] = c]
    ELSE c

\* the extensions categorize_asset names, and every spelling of one in
\* upper and lower case letters
KnownExts == {<<"c","s","s">>, <<"j","s">>} \cup ImageExts
CaseVariants(e) ==
    {[i \in 1..Len(e) |-> IF i \in S THEN UpperChar(e[i]) ELSE e[i]] : S \in SUBSET (1..Len(e))}

\* what precedes the extension's dot: "a" and "d.js/a.b"
Stems == {<<"a">>, <<"d",".","j","s","/","a",".","b">>}
\* paths with another extension or none: "", "a", ".css", "..js", "a.",
\* "a.css/", "a.css/b", "acss", "a.cs", "a.csss", "a.css.bak", "a.j.s",
\* "a.woff", "a.HTML", "A.Ico/.PNG"
OtherPaths ==
    {<<>>, <<"a">>, <<".","c","s","s">>, <<".",".","j","s">>, <<"a",".">>,
     <<"a",".","c","s","s","/">>, <<"a",".","c","s","s","/","b">>, <<"a","c","s","s">>,
     <<"a",".","c","s">>, <<"a",".","c","s","s","s">>,
     <<"a",".","c","s","s",".","b","a","k">>, <<"a",".","j",".","s">>,
     <<"a",".","w","o","f","f">>, <<"a",".","H","T","M","L">>,
     <<"A",".","I","c","o","/",".","P","N","G">>}
CatPaths ==
    {s \o <<".">> \o v : s \in Stems, v \in UNION {CaseVariants(e) : e \in KnownExts}}
      \cup OtherPaths

InitCat ==
    /\ asset_path \in CatPaths /\ asset_cat = "none"
    /\ cpc = "off" /\ max_pages = 0 /\ start_url = NoUrl
    /\ visited = {} /\ to_visit = <<>> /\ count = 0
    /\ clean_url = NoUrl /\ scrapes = <<>> /\ site = Emp
    /\ pc = "off" /\ trace = <<>> /\ error = "none"
    /\ html = {} /\ soup = Emp
    /\ static_urls = {} /\ dynamic_urls = {} /\ all_urls = {}
    /\ todo = {} /\ tried = {} /\ attempts = Emp /\ answers = Emp /\ succeeded = {}
    /\ url_to_local = Emp
    /\ files = Emp /\ dirs = {} /\ index = NoIndex /\ drivers = 0
    /\ run = "first" /\ first = [files |-> Emp, index |-> NoIndex]

\* one call categorize_asset(asset_path)
Categorize ==
    /\ asset_cat = "none"
    /\ asset_cat' = categorize_asset(Segments(asset_path, <<>>))
    /\ UNCHANGED <<asset_path, pageVars, crawlVars>>

NextCat == Categorize

SpecCat == InitCat /\ [][NextCat]_vars


\* ================================================================ claims
AfterDownload == \E i \in DOMAIN trace : trace[i] \in {"REWRITE", "PERSIST"}
AfterRewrite == \E i \in DOMAIN trace : trace[i] = "PERSIST"
FallbackErrors == {"fallback: WebDriverException at webdriver.Chrome",
                   "fallback: WebDriverException at driver.get",
                   "fallback: WebDriverException at driver.page_source"}
AbortedInFetch == pc = "aborted" /\ trace = <<"FETCH">>

\* C1: once the download loop is over, every member of all_urls has been
\* taken by it, whatever failed before it, and url_to_local has a key exactly
\* for the URLs that were answered with success and written to their path,
\* each mapped to a file that exists.
C1_AllTriedAndOutcomeExact ==
    /\ DOMAIN url_to_local = succeeded
    /\ \A r \in DOMAIN url_to_local : url_to_local[r] \in DOMAIN files
    /\ AfterDownload => (todo = {} /\ tried = all_urls)

\* three or more assets, of which one was refused by the server, one could
\* not be resolved to a path, and two were downloaded
C1_Witness ==
    /\ pc = "rewrite" /\ Cardinality(all_urls) >= 3
    /\ \E u \in DOMAIN answers : ~answers[u]
    /\ \E u \in all_urls : Malformed(u)
    /\ Cardinality(DOMAIN url_to_local) >= 2

\* C2: after the rewrite step an element's reference is the matched file's
\* path relative to the output root exactly when its absolute form is a key
\* of url_to_local, and that file was written by a successful download; every
\* other reference has its pre-rewrite value.
C2_RewriteIffInOutcome ==
    AfterRewrite =>
      \A id \in DOMAIN soup :
        LET v == ElemUniverse[id].val
            full == UrlJoin(page_url, v)
        IN IF v # NoUrl /\ full \in DOMAIN url_to_local
           THEN /\ soup[id].val = Rel(RelPath(url_to_local[full], output_dir), "")
                /\ output_dir \o soup[id].val.path \in DOMAIN files
                /\ full \in succeeded
           ELSE soup[id].val = v

\* one reference was rewritten and another, whose download failed, was not
C2_Witness ==
    /\ pc = "done"
    /\ \E id \in DOMAIN soup : soup[id].val # ElemUniverse[id].val
    /\ \E id \in DOMAIN soup :
         /\ ElemUniverse[id].val \in DOMAIN answers /\ ~answers[ElemUniverse[id].val]
         /\ soup[id].val = ElemUniverse[id].val

\* C3, with failures of the browser session in dynamic discovery set aside:
\* a run that has a document ends done, having entered the five stages in
\* order, each once, with index.html written.
BrowserErrors == {"WebDriverException at webdriver.Chrome", "WebDriverException at driver.get",
                  "WebDriverException at driver.get_log"}
C3_AlwaysCompletes ==
    (pc \in {"done", "aborted"} /\ Len(trace) > 1 /\ error \notin BrowserErrors)
      => /\ pc = "done"
         /\ trace = <<"FETCH", "DISCOVER", "DOWNLOAD", "REWRITE", "PERSIST">>
         /\ index.exists

C5_NoSessionLeftOpen == drivers = 0

\* ---- the crawler's claims
Min(a, b) == IF a <= b THEN a ELSE b
OkScrapes == SelectSeq(scrapes, LAMBDA r : r.ok)
AllScrapesOk == \A i \in DOMAIN scrapes : scrapes[i].ok
AllLinksRead ==
    \A p \in DOMAIN site :
      site[p].ok /\ \A i \in DOMAIN site[p].hrefs : ~Malformed(site[p].hrefs[i])

\* the same-domain pages the anchors of page p point to
Targets(p) ==
    {t \in {UrlDefrag(UrlJoin(p, site[p].hrefs[i])) :
              i \in {j \in DOMAIN site[p].hrefs : ~Malformed(site[p].hrefs[j])}} :
       t.netloc = domain}

\* the pages reachable from the start URL over the anchors of the site
RECURSIVE ReachFrom(_)
ReachFrom(S) ==
    LET next == S \cup UNION {Targets(p) : p \in S \cap DOMAIN site}
    IN IF next = S THEN S ELSE ReachFrom(next)
Reachable == ReachFrom({UrlDefrag(start_url)})

\* C6 as stated: when every scrape succeeded, the crawl ends with exactly
\* min(max_pages, reachable pages) pages scraped.
C6_ExactlyMinWhenScrapesSucceed ==
    (cpc = "finished" /\ AllScrapesOk) => count = Min(max_pages, Cardinality(Reachable))

\* C6 amended: a scrape is started only while fewer than max_pages pages
\* have been scraped, so at most max_pages are; the crawl never scrapes more
\* than min(max_pages, reachable pages) pages, and scrapes exactly that many
\* when every scrape succeeded and every scraped page's anchors were read
\* (its second GET returned and each href resolved).
C6_BoundedAndExactWhenLinksRead ==
    /\ \A i \in DOMAIN scrapes : scrapes[i].dir <= max_pages
    /\ count = Len(OkScrapes) /\ count <= Min(max_pages, Cardinality(Reachable))
    /\ (cpc = "finished" /\ AllScrapesOk /\ AllLinksRead)
         => count = Min(max_pages, Cardinality(Reachable))

\* the bound stopped the crawl with reachable pages still queued
C6_Witness ==
    /\ cpc = "finished" /\ AllScrapesOk /\ AllLinksRead
    /\ count = max_pages /\ count >= 2 /\ Len(to_visit) >= 2
    /\ Cardinality(Reachable) > max_pages

\* C7: a link is appended to to_visit only if its fragment-stripped form is
\* not in visited, visited holds exactly the fragment-stripped URLs of the
\* scrapes that returned, and no fragment-stripped URL has two scrapes that
\* returned in one crawl (a scrape that raised does not count as scraped).
C7_NoPageScrapedTwice ==
    [][/\ cpc = "links" =>
             \A i \in (Len(to_visit) + 1)..Len(to_visit') : UrlDefrag(to_visit'[i]) \notin visited
       /\ \A v \in visited' : v.fragment = ""
       /\ visited' = {OkScrapes'[i].url : i \in DOMAIN OkScrapes'}
       /\ \A i, j \in DOMAIN OkScrapes' : OkScrapes'[i].url = OkScrapes'[j].url => i = j]_vars

\* a queued URL with a fragment whose page was scraped is about to be skipped
C7_Witness ==
    /\ cpc = "loop" /\ LoopCond
    /\ Head(to_visit).fragment # "" /\ AlreadyVisited(Head(to_visit), visited)
    /\ \E i \in DOMAIN scrapes : scrapes[i].ok /\ scrapes[i].url = UrlDefrag(Head(to_visit))
    /\ UrlDefrag(Head(to_visit)) # UrlDefrag(start_url)

\* ---- the page pipeline's claims, continued
\* C8: every canonical URL is requested exactly once in one page scrape.
C8_EachCanonicalUrlOnce ==
    AfterDownload => \A r \in DOMAIN attempts : attempts[r] = 1

\* C9: distinct downloaded URLs have distinct local paths, and the file at
\* url_to_local[r] holds the content of r.
C9_DistinctLocalPaths ==
    /\ \A r1, r2 \in DOMAIN url_to_local : url_to_local[r1] = url_to_local[r2] => r1 = r2
    /\ \A r \in DOMAIN url_to_local : files[url_to_local[r]] = r

\* C10: a second run with the same upstream answers leaves the output tree
\* and index.html as the first run left them.
C10_SecondRunChangesNothing ==
    (run = "second" /\ pc = "done") => (files = first.files /\ index = first.index)

\* ---- categorize_asset's claim
ExpectedCategory(e) ==
    IF e = <<"c","s","s">> THEN "css" ELSE IF e = <<"j","s">> THEN "js" ELSE "images"

\* C11: categorize_asset returns one of css, js, images, assets for every
\* path; a path whose extension is .css, .js or one of the seven image
\* extensions, in any letter case, gets css, js or images; a path with any
\* other extension, or with none, gets assets.
C11_TotalAndCaseInsensitive ==
    asset_cat # "none" =>
      /\ asset_cat \in {"css", "js", "images", "assets"}
      /\ \A s \in Stems, e \in KnownExts :
            \A v \in CaseVariants(e) :
              asset_path = s \o <<".">> \o v => asset_cat = ExpectedCategory(e)
      /\ asset_path \in OtherPaths => asset_cat = "assets"

\* "d.js/a.b.JpEg" was given the category images
C11_Witness ==
    /\ asset_path = <<"d",".","j","s","/","a",".","b",".","J","p","E","g">>
    /\ asset_cat = "images"

\* ---- the crawler's claims, continued
\* C12: every URL in to_visit other than the start URL has the start URL's
\* network location, and so has every page a scrape is started for.
C12_FrontierOnStartDomain ==
    /\ \A i \in DOMAIN to_visit : to_visit[i] = start_url \/ to_visit[i].netloc = domain
    /\ \A i \in DOMAIN scrapes : scrapes[i].url.netloc = domain

\* a page with an anchor to another host had its anchors read, and the
\* crawl went on to scrape a page found there
C12_Witness ==
    /\ \E p \in DOMAIN site :
         /\ site[p].ok
         /\ \E i \in DOMAIN site[p].hrefs : site[p].hrefs[i].netloc = "other"
         /\ \E i \in DOMAIN scrapes : scrapes[i].ok /\ scrapes[i].url \in Targets(p) \ {p}
    /\ cpc = "finished"

\* C13 as stated: no two pages whose scrape is started in one crawl are
\* given the same output directory, whether the scrape returns or raises,
\* and the scraped pages occupy page_1 .. page_count with no gaps.
C13_StartedPagesOwnDirectory ==
    /\ \A i, j \in DOMAIN scrapes :
         scrapes[i].url # scrapes[j].url => scrapes[i].dir # scrapes[j].dir
    /\ Len(OkScrapes) = count /\ \A i \in DOMAIN OkScrapes : OkScrapes[i].dir = i

\* C13 amended: no two pages whose scrape returned are given the same
\* output directory and they occupy page_1 .. page_count with no gaps; a
\* page whose scrape raised was given page_<count+1>, and so is the next
\* page whose scrape is started.
C13_ScrapedPagesOwnDirectory ==
    /\ \A i, j \in DOMAIN scrapes :
         (scrapes[i].ok /\ scrapes[j].ok /\ scrapes[i].dir = scrapes[j].dir) => i = j
    /\ Len(OkScrapes) = count /\ \A i \in DOMAIN OkScrapes : OkScrapes[i].dir = i
    /\ \A i \in DOMAIN scrapes : scrapes[i].dir = Len(SelectSeq(SubSeq(scrapes, 1, i - 1), LAMBDA r : r.ok)) + 1
    /\ \A i \in 1..(Len(scrapes) - 1) : ~scrapes[i].ok => scrapes[i + 1].dir = scrapes[i].dir

\* a page's scrape raised, and the next page was scraped into the directory
\* that page had been given
C13_Witness ==
    \E i \in 1..(Len(scrapes) - 1) :
      /\ ~scrapes[i].ok /\ scrapes[i + 1].ok
      /\ scrapes[i + 1].url # scrapes[i].url
      /\ scrapes[i + 1].dir = scrapes[i].dir /\ scrapes[i].dir >= 2

\* C14: when a page's scrape raises, the page is not added to visited, count
\* stays, its links are not requested and nothing is appended to to_visit,
\* the rest of the queue stays as it is, and the loop goes on.
C14_FailedScrapeSkipsOnlyThatPage ==
    [][(Len(scrapes') > Len(scrapes) /\ ~scrapes'[Len(scrapes')].ok) =>
         /\ scrapes'[Len(scrapes')].url = UrlDefrag(Head(to_visit))
         /\ visited' = visited /\ scrapes'[Len(scrapes')].url \notin visited'
         /\ count' = count
         /\ site' = site
         /\ to_visit' = Tail(to_visit)
         /\ cpc' = "loop"]_vars

\* a page's scrape raised with other URLs queued behind it, the page is
\* neither visited nor read for links, and the next queued page was scraped
C14_Witness ==
    \E i \in 1..(Len(scrapes) - 1) :
      /\ ~scrapes[i].ok
      /\ scrapes[i].url \notin visited /\ scrapes[i].url \notin DOMAIN site
      /\ scrapes[i + 1].url # scrapes[i].url
      /\ to_visit # <<>>

\* the link distance of page x from the start URL over the anchors of the
\* site: the layer of the breadth-first search from the start page x is in
RECURSIVE DistFrom(_, _, _, _)
DistFrom(x, layer, seen, k) ==
    IF x \in layer \/ layer = {} THEN k
    ELSE DistFrom(x, UNION {Targets(p) : p \in layer \cap DOMAIN site} \ (seen \cup layer),
                  seen \cup layer, k + 1)
Dist(x) == DistFrom(x, {UrlDefrag(start_url)}, {}, 0)

\* to_visit is a queue: a step takes its head or appends at its tail, and
\* the page a scrape is started for is the head
FifoStep ==
    /\ \/ to_visit # <<>> /\ to_visit' = Tail(to_visit)
       \/ Len(to_visit') >= Len(to_visit) /\ SubSeq(to_visit', 1, Len(to_visit)) = to_visit
    /\ Len(scrapes') > Len(scrapes) =>
         to_visit # <<>> /\ scrapes'[Len(scrapes')].url = UrlDefrag(Head(to_visit))

\* the scraped pages, in the order of their scrapes, do not come closer to
\* the start URL
ScrapedByDistance ==
    \A i, j \in DOMAIN OkScrapes :
      i < j => Dist(OkScrapes[i].url) <= Dist(OkScrapes[j].url)

\* the scrape this step starts is for a page no farther from the start URL
\* than any page still queued and not visited
NoCloserPageQueued ==
    Len(scrapes') > Len(scrapes) =>
      \A i \in DOMAIN to_visit' :
        UrlDefrag(to_visit'[i]) \notin visited
          => Dist(scrapes'[Len(scrapes')].url) <= Dist(UrlDefrag(to_visit'[i]))

\* C15 as stated: URLs are dequeued in the order they were enqueued, pages
\* are scraped in non-decreasing link distance from the start URL, and no
\* page is scraped while a page closer to the start URL is still queued and
\* unvisited.
C15_BreadthFirstByDistance ==
    [][FifoStep /\ ScrapedByDistance' /\ NoCloserPageQueued]_vars

\* C15 amended: URLs are dequeued in the order they were enqueued; when no
\* scrape has raised and the anchors of every scraped page were read, pages
\* are scraped in non-decreasing link distance from the start URL and no
\* page is scraped while a closer page is still queued and unvisited.
C15_FifoAndByDistanceWhenNothingFails ==
    [][/\ FifoStep
       /\ (AllScrapesOk' /\ AllLinksRead') => (ScrapedByDistance' /\ NoCloserPageQueued)]_vars

\* nothing failed, and a page two links from the start URL was scraped
\* after a page one link from it
C15_Witness ==
    /\ AllScrapesOk /\ AllLinksRead
    /\ \E i, j \in DOMAIN scrapes :
         i < j /\ Dist(scrapes[i].url) = 1 /\ Dist(scrapes[j].url) = 2

\* C16: for max_pages >= 0, when every scrape and every fetch returns or
\* raises, the loop of scrape_with_crawling exits, with count <= max_pages
\* and with the queue empty or max_pages pages scraped, whatever the links
\* of the site are and whichever scrapes and fetches fail.
C16_CrawlTerminates ==
    <>(cpc = "finished" /\ count <= max_pages /\ (to_visit = <<>> \/ count = max_pages))

\* the crawl of a site with a cycle of links ended after a scrape raised,
\* the page was scraped at its second turn and its links could not be read
C16_Witness ==
    /\ cpc = "finished"
    /\ \E p, q \in visited : p # q /\ q \in Targets(p) /\ p \in Targets(q)
    /\ \E i, j \in DOMAIN scrapes :
         /\ i < j /\ ~scrapes[i].ok /\ scrapes[j].ok /\ scrapes[j].url = scrapes[i].url
         /\ ~site[scrapes[j].url].ok
====
